---- MODULE Spec2Model ----
(***************************************************************************)
(* A model of ukgeolocate: the postcode normaliser (postcode.py), the      *)
(* address normaliser and scorer (address.py), the store handle            *)
(* (_db.py: _DatabasePool) and the resolution engine (client.py:           *)
(* UKGeolocate).                                                           *)
(*                                                                         *)
(* Strings are sequences of one-character strings.  Scores are exact       *)
(* fractions <<num, den>> in lowest terms: for the short strings of the    *)
(* model the float 2.0*M/T orders and compares exactly as the fraction.    *)
(***************************************************************************)
EXTENDS Integers, Sequences, FiniteSets, TLC

VARIABLES
    pcRaw,      \* postcode.normalise: the raw argument
    pcOut,      \* postcode.normalise(pcRaw): the outcome
    pcOut2,     \* postcode.normalise applied to the value of pcOut
    selRows,    \* _lookup_uprn: the rows the cursor yields, in order
    selQuery,   \* _lookup_uprn: address_line
    selThreshold, \* self._threshold
    selOut,     \* _lookup_uprn: the outcome of the scan
    simCandidate, \* address.similarity: candidate
    simQuery,   \* address.similarity: query
    simOut,     \* address.similarity(simCandidate, simQuery): the outcome
    engine,     \* the UKGeolocate object: "none", "ready" or "failed"
    threshold,  \* UKGeolocate._threshold
    conn,       \* _DatabasePool._conn of each store handle
    file,       \* whether the file at _DatabasePool._path exists
    schema,     \* whether that file holds the table the engine expects
    epcTable,   \* the rows of epc_addresses, in the order the store scans
    osTable,    \* uprns: UPRN -> <<x, y, latitude, longitude>>
    scope,      \* whether the caller is inside a with block of the engine
    last        \* the operation that ran last: arguments and outcome

pcVars == <<pcRaw, pcOut, pcOut2>>
selVars == <<selRows, selQuery, selThreshold, selOut>>
simVars == <<simCandidate, simQuery, simOut>>
dataVars == <<schema, epcTable, osTable>>
engVars == <<engine, threshold, conn, file, schema, epcTable, osTable, scope, last>>

vars == <<pcRaw, pcOut, pcOut2, selRows, selQuery, selThreshold, selOut,
          simCandidate, simQuery, simOut,
          engine, threshold, conn, file, schema, epcTable, osTable, scope, last>>

(***************************************************************************)
(* Bounds of the model.                                                    *)
(***************************************************************************)
MaxPcLen == 6
MaxRows == 3
MaxEpcRows == 2
MaxSimLen == 3

(***************************************************************************)
(* Characters and the str methods the code uses.                           *)
(***************************************************************************)
UpperLetters == {"A", "B"}
LowerLetters == {"a", "b"}
Digits == {"0", "1", "2", "3", "4", "5", "6", "7", "8", "9"}
\* str.isspace / the regex class \s : the space and the other whitespace
Whitespace == {" ", "\t"}

\* str.upper, one character
UpperChar(c) ==
    CASE c = "a" -> "A"
      [] c = "b" -> "B"
      [] OTHER -> c

\* str.upper
Upper(s) == [i \in 1..Len(s) |-> UpperChar(s[i])]

\* s[i:j] with Python's 0-based, end-exclusive, clamped indices (0 <= i)
Slice(s, i, j) ==
    LET hi == IF j > Len(s) THEN Len(s) ELSE j
    IN  IF hi <= i THEN <<>> ELSE SubSeq(s, i + 1, hi)

RECURSIVE LStrip(_)
\* str.lstrip(): drops leading whitespace
LStrip(s) ==
    IF s # <<>> /\ Head(s) \in Whitespace THEN LStrip(Tail(s)) ELSE s

RECURSIVE RStrip(_)
\* str.rstrip(): drops trailing whitespace
RStrip(s) ==
    IF s # <<>> /\ s[Len(s)] \in Whitespace
    THEN RStrip(SubSeq(s, 1, Len(s) - 1))
    ELSE s

\* str.strip()
Strip(s) == RStrip(LStrip(s))

RECURSIVE RemoveChar(_, _)
\* str.replace(c, ""): every occurrence of the one character c removed
RemoveChar(s, c) ==
    IF s = <<>> THEN <<>>
    ELSE IF Head(s) = c THEN RemoveChar(Tail(s), c)
    ELSE <<Head(s)>> \o RemoveChar(Tail(s), c)

\* All strings over alphabet of length at most n
StringsUpTo(alphabet, n) == UNION {[1..k -> alphabet] : k \in 0..n}

(***************************************************************************)
(* postcode.py                                                             *)
(***************************************************************************)
\* [A-Z] under re.IGNORECASE
PcLetter(c) == c \in UpperLetters \cup LowerLetters
\* \d
PcDigit(c) == c \in Digits
\* [A-Z\d] under re.IGNORECASE
PcAlnum(c) == PcLetter(c) \/ PcDigit(c)
\* \s
PcSpace(c) == c \in Whitespace

\* _UK_POSTCODE_RE.match(s): ^[A-Z]{1,2}\d[A-Z\d]?\s?\d[A-Z]{2}$
\* n letters, a digit, o optional alphanumerics, w optional whitespace,
\* a digit, two letters; the pattern is anchored at both ends.
PostcodeReMatch(s) ==
    \E n \in 1..2, o \in 0..1, w \in 0..1 :
        /\ Len(s) = n + 1 + o + w + 3
        /\ \A i \in 1..n : PcLetter(s[i])
        /\ PcDigit(s[n + 1])
        /\ o = 1 => PcAlnum(s[n + 2])
        /\ w = 1 => PcSpace(s[n + 1 + o + 1])
        /\ PcDigit(s[n + 1 + o + w + 1])
        /\ PcLetter(s[n + 1 + o + w + 2])
        /\ PcLetter(s[n + 1 + o + w + 3])

\* postcode.validate
PostcodeValidate(raw) == PostcodeReMatch(Strip(raw))

\* postcode.normalise: the value returned, or PostcodeInvalid(raw)
PostcodeNormalise(raw) ==
    IF ~PostcodeValidate(raw)
    THEN [ok |-> FALSE, error |-> "PostcodeInvalid", postcode |-> raw]
    ELSE LET stripped == RemoveChar(Upper(Strip(raw)), " ")
             n == Len(stripped)
         IN  [ok |-> TRUE,
              value |-> Slice(stripped, 0, n - 3) \o <<" ">>
                        \o Slice(stripped, n - 3, n)]

(***************************************************************************)
(* address.py                                                              *)
(***************************************************************************)
RECURSIVE SplitWs(_, _)
\* str.split(): the maximal runs of non-whitespace characters, in order.
\* word is the run being read.
SplitWs(s, word) ==
    IF s = <<>> THEN (IF word = <<>> THEN <<>> ELSE <<word>>)
    ELSE IF Head(s) \in Whitespace
         THEN (IF word = <<>> THEN <<>> ELSE <<word>>) \o SplitWs(Tail(s), <<>>)
         ELSE SplitWs(Tail(s), Append(word, Head(s)))

RECURSIVE JoinSpace(_)
\* " ".join(words)
JoinSpace(words) ==
    IF words = <<>> THEN <<>>
    ELSE IF Len(words) = 1 THEN words[1]
    ELSE words[1] \o <<" ">> \o JoinSpace(Tail(words))

\* address.normalise without the upper-casing
AddrNormaliseKeepsCase(raw) == JoinSpace(SplitWs(RemoveChar(raw, ","), <<>>))

\* address.normalise
AddrNormalise(raw) == JoinSpace(SplitWs(RemoveChar(Upper(raw), ","), <<>>))

RECURSIVE RunLen(_, _, _, _, _, _)
\* The length of the common run a[i:i+k] == b[j:j+k] that starts at (i, j)
\* and stays below (ahi, bhi); 0-based indices as in difflib.
RunLen(a, b, i, j, ahi, bhi) ==
    IF i < ahi /\ j < bhi /\ a[i + 1] = b[j + 1]
    THEN 1 + RunLen(a, b, i + 1, j + 1, ahi, bhi)
    ELSE 0

\* The block <<i, j, k>> that starts at p = <<i, j>>
BlockAt(a, b, ahi, bhi, p) == <<p[1], p[2], RunLen(a, b, p[1], p[2], ahi, bhi)>>

\* Whether block x comes before block y in find_longest_match's order:
\* longer first, then the earlier start in a, then the earlier start in b
BlockPreferred(x, y) ==
    \/ x[3] > y[3]
    \/ /\ x[3] = y[3]
       /\ \/ x[1] < y[1]
          \/ x[1] = y[1] /\ x[2] <= y[2]

\* SequenceMatcher.find_longest_match(alo, ahi, blo, bhi) without junk: of
\* all longest matching blocks the one that starts earliest in a, and of
\* those the one that starts earliest in b.  <<i, j, k>>, k = 0 if none.
FindLongestMatch(a, b, alo, ahi, blo, bhi) ==
    LET blocks == {BlockAt(a, b, ahi, bhi, p) :
                       p \in {q \in (alo..(ahi - 1)) \X (blo..(bhi - 1)) :
                                  a[q[1] + 1] = b[q[2] + 1]}}
    IN  IF blocks = {} THEN <<alo, blo, 0>>
        ELSE CHOOSE x \in blocks : \A y \in blocks : BlockPreferred(x, y)

RECURSIVE MatchTotal(_, _, _, _, _, _)
RECURSIVE MatchAround(_, _, _, _, _, _, _)
\* The summed size of SequenceMatcher.get_matching_blocks(): the longest
\* block, then the same on the pieces to its left and to its right.
MatchTotal(a, b, alo, ahi, blo, bhi) ==
    MatchAround(a, b, alo, ahi, blo, bhi,
                FindLongestMatch(a, b, alo, ahi, blo, bhi))

\* The same, m being the longest block of the piece
MatchAround(a, b, alo, ahi, blo, bhi, m) ==
    IF m[3] = 0 THEN 0
    ELSE m[3]
         + MatchTotal(a, b, alo, m[1], blo, m[2])
         + MatchTotal(a, b, m[1] + m[3], ahi, m[2] + m[3], bhi)

RECURSIVE Gcd(_, _)
Gcd(x, y) == IF y = 0 THEN x ELSE Gcd(y, x % y)

\* The fraction n/d in lowest terms (d > 0)
Frac(n, d) == LET g == Gcd(n, d) IN <<n \div g, d \div g>>

One == <<1, 1>>
Zero == <<0, 1>>

\* x >= y, x > y on fractions
FracGE(x, y) == x[1] * y[2] >= y[1] * x[2]
FracGT(x, y) == x[1] * y[2] > y[1] * x[2]

\* SequenceMatcher(None, a, b).ratio(): 2.0 * matches / length, and 1.0
\* when both strings are empty
Ratio(a, b) ==
    LET length == Len(a) + Len(b)
    IN  IF length = 0 THEN One
        ELSE Frac(2 * MatchTotal(a, b, 0, Len(a), 0, Len(b)), length)

\* address.similarity
Similarity(candidate, query) ==
    Ratio(AddrNormalise(candidate), AddrNormalise(query))


(***************************************************************************)
(* Integers of unbounded size (Python int) and of 64 bits (SQLite          *)
(* INTEGER), as their canonical decimal text: <<"7">>, <<"-", "5">>.       *)
(***************************************************************************)
DigitVal(c) ==
    CASE c = "0" -> 0 [] c = "1" -> 1 [] c = "2" -> 2 [] c = "3" -> 3
      [] c = "4" -> 4 [] c = "5" -> 5 [] c = "6" -> 6 [] c = "7" -> 7
      [] c = "8" -> 8 [] c = "9" -> 9

RECURSIVE StripZeros(_)
StripZeros(d) ==
    IF Len(d) > 1 /\ Head(d) = "0" THEN StripZeros(Tail(d)) ELSE d

\* The digit groups of an int literal: digits, single underscores between
DigitGroups(body) ==
    /\ body # <<>>
    /\ \A i \in 1..Len(body) : body[i] \in Digits \cup {"_"}
    /\ body[1] # "_" /\ body[Len(body)] # "_"
    /\ \A i \in 1..(Len(body) - 1) : ~(body[i] = "_" /\ body[i + 1] = "_")

\* int(text) for a str: surrounding whitespace dropped, an optional sign,
\* then the digit groups; anything else is ValueError
ParseInt(text) ==
    LET s == Strip(text)
        signed == s # <<>> /\ s[1] \in {"+", "-"}
        body == IF signed THEN Tail(s) ELSE s
    IN  IF ~DigitGroups(body) THEN [ok |-> FALSE, error |-> "ValueError"]
        ELSE LET mag == StripZeros(RemoveChar(body, "_"))
             IN  [ok |-> TRUE,
                  value |-> IF signed /\ s[1] = "-" /\ mag # <<"0">>
                            THEN <<"-">> \o mag ELSE mag]

IntNegative(n) == n[1] = "-"
IntMagnitude(n) == IF IntNegative(n) THEN Tail(n) ELSE n

RECURSIVE DigitsLE(_, _)
\* x <= y for digit strings of one length
DigitsLE(x, y) ==
    IF x = <<>> THEN TRUE
    ELSE IF DigitVal(Head(x)) # DigitVal(Head(y))
         THEN DigitVal(Head(x)) < DigitVal(Head(y))
         ELSE DigitsLE(Tail(x), Tail(y))

\* 2^63 - 1 and 2^63
Int64Max ==
    <<"9","2","2","3","3","7","2","0","3","6","8","5","4","7","7","5","8","0","7">>
Int64MinMagnitude ==
    <<"9","2","2","3","3","7","2","0","3","6","8","5","4","7","7","5","8","0","8">>

\* Whether sqlite3 can bind the Python int n as an SQLite INTEGER
\* (otherwise binding raises OverflowError)
FitsInt64(n) ==
    LET mag == IntMagnitude(n)
        limit == IF IntNegative(n) THEN Int64MinMagnitude ELSE Int64Max
    IN  \/ Len(mag) < Len(limit)
        \/ Len(mag) = Len(limit) /\ DigitsLE(mag, limit)

(***************************************************************************)
(* client.py: candidate scoring and selection (_lookup_uprn, the loop)     *)
(***************************************************************************)
\* SQL NULL / Python None in a text column (no string holds this element)
NULL == <<"NULL">>

\* x or ""
OrEmpty(x) == IF x = NULL THEN <<>> ELSE x

\* max(...) of fractions in a non-empty set
MaxFrac(S) == CHOOSE x \in S : \A y \in S : FracGE(x, y)

\* row_score: the highest similarity over the four address columns
RowScore(row, norm_query) ==
    MaxFrac({Similarity(OrEmpty(row.address1), norm_query),
             Similarity(OrEmpty(row.address2), norm_query),
             Similarity(OrEmpty(row.address3), norm_query),
             Similarity(OrEmpty(row.address), norm_query)})

\* addr_full or addr1 or ""
MatchedAddress(row) ==
    IF OrEmpty(row.address) # <<>> THEN row.address
    ELSE IF OrEmpty(row.address1) # <<>> THEN row.address1
    ELSE <<>>

\* best = None
NoBest == [none |-> TRUE]

\* row_score >= self._thresholdeshold
MeetsThreshold(row_score, thr) == FracGE(row_score, thr)

\* A variant of BeatsBest: an equal score replaces the current best too
BeatsBestOnTie(row_score, best) ==
    best = NoBest \/ FracGE(row_score, best.score)

\* best is None or row_score > best[2]
BeatsBest(row_score, best) == best = NoBest \/ FracGT(row_score, best.score)

\* row_score == 1.0
IsPerfect(row_score) == row_score = One

\* best after the row: (uprn_int, addr_full or addr1 or "", row_score)
NewBest(uprn_int, row, row_score) ==
    [uprn |-> uprn_int, matched_address |-> MatchedAddress(row),
     score |-> row_score]

RECURSIVE ScanRows(_, _, _, _, _)
RECURSIVE ScanRowBadUprnEnds(_, _, _, _, _, _, _)
\* A variant of ScanRow: a UPRN that does not parse ends the loop (break)
\* instead of skipping the row (continue)
ScanRowBadUprnEnds(rows, i, best, norm_query, thr, row_score, uprn_int) ==
    IF MeetsThreshold(row_score, thr) /\ BeatsBest(row_score, best)
    THEN IF ~uprn_int.ok
         THEN best
         ELSE IF IsPerfect(row_score)
              THEN NewBest(uprn_int.value, rows[i], row_score)
              ELSE ScanRows(rows, i + 1,
                            NewBest(uprn_int.value, rows[i], row_score),
                            norm_query, thr)
    ELSE ScanRows(rows, i + 1, best, norm_query, thr)

RECURSIVE ScanRow(_, _, _, _, _, _, _)
\* The body of the for loop on row i, which scores row_score and whose UPRN
\* parses to uprn_int (int() runs only if the row is accepted), then the
\* rest of the loop
ScanRow(rows, i, best, norm_query, thr, row_score, uprn_int) ==
    IF MeetsThreshold(row_score, thr) /\ BeatsBest(row_score, best)
    THEN IF ~uprn_int.ok
         THEN ScanRows(rows, i + 1, best, norm_query, thr)
         ELSE IF IsPerfect(row_score)
              THEN NewBest(uprn_int.value, rows[i], row_score)
              ELSE ScanRows(rows, i + 1,
                            NewBest(uprn_int.value, rows[i], row_score),
                            norm_query, thr)
    ELSE ScanRows(rows, i + 1, best, norm_query, thr)

\* The for loop over the cursor from row i on, best being the best so far:
\* the value of best when the loop ends (exhausted, or left by break)
ScanRows(rows, i, best, norm_query, thr) ==
    IF i > Len(rows) THEN best
    ELSE ScanRow(rows, i, best, norm_query, thr,
                 RowScore(rows[i], norm_query), ParseInt(rows[i].uprn))

\* _lookup_uprn once the cursor is there: the tuple returned, or NoMatchFound
SelectBest(rows, norm_postcode, address_line, thr) ==
    LET best == ScanRows(rows, 1, NoBest, AddrNormalise(address_line), thr)
    IN  IF best = NoBest
        THEN [ok |-> FALSE, error |-> "NoMatchFound",
              postcode |-> norm_postcode, address |-> address_line]
        ELSE [ok |-> TRUE, uprn |-> best.uprn,
              matched_address |-> best.matched_address, score |-> best.score]


(***************************************************************************)
(* _db.py: the store handle (_DatabasePool)                                *)
(*                                                                         *)
(* conn[h] = "open" is `_conn is not None`.  The other three values are    *)
(* `_conn is None`, told apart by how the handle came to hold none:        *)
(* "unopened" (since __init__), "stale" (dropped by execute when the file  *)
(* was gone), "closed" (released by close()).  The code tests only         *)
(* `_conn is None`, and so do the operators below.                         *)
(***************************************************************************)
Handles == {"epc", "os"}

\* The name given to each _DatabasePool
DbName(h) == IF h = "epc" THEN "EPC" ELSE "OS Open UPRN"

\* The table each dataset must hold
ExpectedTable(h) == IF h = "epc" THEN "epc_addresses" ELSE "uprns"

DatabaseNotFound(h) ==
    [ok |-> FALSE, error |-> "DatabaseNotFound", path |-> h, db_name |-> DbName(h)]
DatabaseInvalid(h) ==
    [ok |-> FALSE, error |-> "DatabaseInvalid", path |-> h,
     detail |-> ExpectedTable(h)]
\* An exception of sqlite3 that the handle lets through: "OperationalError"
\* (a query fault) or "OverflowError" (a parameter that is no 64-bit integer)
SqliteError(kind, h) == [ok |-> FALSE, error |-> kind, path |-> h]
Ok == [ok |-> TRUE]

\* What conn.execute(sql, params) can do
Attempts == {"ok", "OperationalError", "OverflowError"}

\* _open without the is_file check
PoolOpenNoFileCheck(h, c, exists) == [conn |-> "open", out |-> Ok]

\* _open: the connection the handle holds afterwards, and the outcome
PoolOpen(h, c, exists) ==
    IF ~exists THEN [conn |-> c, out |-> DatabaseNotFound(h)]
    ELSE [conn |-> "open", out |-> Ok]

\* get_connection of a handle that stays dead once it was found stale
PoolGetConnectionSticky(h, c, exists) ==
    IF c = "stale" THEN [conn |-> c, out |-> DatabaseNotFound(h)]
    ELSE IF c # "open" THEN PoolOpen(h, c, exists) ELSE [conn |-> c, out |-> Ok]

\* get_connection
PoolGetConnection(h, c, exists) ==
    IF c # "open" THEN PoolOpen(h, c, exists) ELSE [conn |-> c, out |-> Ok]

\* close
PoolClose(c) == IF c = "open" THEN "closed" ELSE c

\* execute that takes every OperationalError for staleness
PoolExecuteNoRecheck(h, c, exists, attempt) ==
    LET got == PoolGetConnection(h, c, exists)
    IN  IF ~got.out.ok THEN got
        ELSE IF attempt = "ok" THEN got
        ELSE IF attempt = "OperationalError"
             THEN [conn |-> "stale", out |-> DatabaseNotFound(h)]
        ELSE [conn |-> got.conn, out |-> SqliteError(attempt, h)]

\* execute, attempt being what conn.execute does in this call
PoolExecute(h, c, exists, attempt) ==
    LET got == PoolGetConnection(h, c, exists)
    IN  IF ~got.out.ok THEN got
        ELSE IF attempt = "ok" THEN got
        ELSE IF attempt = "OperationalError"
             THEN IF ~exists
                  THEN [conn |-> "stale", out |-> DatabaseNotFound(h)]
                  ELSE [conn |-> got.conn, out |-> SqliteError(attempt, h)]
        ELSE [conn |-> got.conn, out |-> SqliteError(attempt, h)]

\* validate_tables([ExpectedTable(h)]), hasTable being whether the catalog
\* lists it
PoolValidateTables(h, c, exists, attempt, hasTable) ==
    LET ran == PoolExecute(h, c, exists, attempt)
    IN  IF ~ran.out.ok THEN ran
        ELSE IF ~hasTable THEN [conn |-> ran.conn, out |-> DatabaseInvalid(h)]
        ELSE ran


\* No outcome yet
Pending == [ok |-> FALSE, error |-> "pending"]

\* The variables of the other specifications, at rest
SelIdle ==
    /\ selRows = <<>>
    /\ selQuery = <<>>
    /\ selThreshold = Zero
    /\ selOut = Pending

PcIdle ==
    /\ pcRaw = <<>>
    /\ pcOut = Pending
    /\ pcOut2 = Pending

SimIdle ==
    /\ simCandidate = <<>>
    /\ simQuery = <<>>
    /\ simOut = Pending

(***************************************************************************)
(* client.py: the resolution engine (UKGeolocate)                          *)
(***************************************************************************)
\* _DEFAULT_THRESHOLD = 0.45
DefaultThreshold == <<9, 20>>

\* The rows of the cursor of _lookup_uprn: WHERE postcode = ? AND uprn IS
\* NOT NULL AND uprn != '', in the order of the table
EpcQuery(table, norm_postcode) ==
    SelectSeq(table, LAMBDA r : /\ r.postcode = norm_postcode
                                /\ r.uprn # NULL
                                /\ r.uprn # <<>>)

\* What conn.execute does with a query on the table of handle h: a missing
\* table or a fault of the store is an OperationalError; a parameter outside
\* 64 bits cannot be bound
QueryAttempt(hasTable, fault, fits) ==
    IF ~hasTable \/ fault THEN "OperationalError"
    ELSE IF ~fits THEN "OverflowError"
    ELSE "ok"

\* _validate_databases with the coordinate dataset validated first
ValidateDatabasesOsFirst(c, f, sch, faultEpc, faultOs) ==
    LET o == PoolValidateTables("os", c["os"], f["os"],
                                QueryAttempt(TRUE, faultOs, TRUE), sch["os"])
        c1 == [c EXCEPT !["os"] = o.conn]
    IN  IF ~o.out.ok THEN [conn |-> c1, out |-> o.out, calls |-> <<"os">>]
        ELSE LET e == PoolValidateTables("epc", c1["epc"], f["epc"],
                                         QueryAttempt(TRUE, faultEpc, TRUE), sch["epc"])
             IN  [conn |-> [c1 EXCEPT !["epc"] = e.conn], out |-> e.out,
                  calls |-> <<"os", "epc">>]

\* _validate_databases, and the handles validate_tables was called on
ValidateDatabases(c, f, sch, faultEpc, faultOs) ==
    LET e == PoolValidateTables("epc", c["epc"], f["epc"],
                                QueryAttempt(TRUE, faultEpc, TRUE), sch["epc"])
        c1 == [c EXCEPT !["epc"] = e.conn]
    IN  IF ~e.out.ok THEN [conn |-> c1, out |-> e.out, calls |-> <<"epc">>]
        ELSE LET o == PoolValidateTables("os", c1["os"], f["os"],
                                         QueryAttempt(TRUE, faultOs, TRUE), sch["os"])
             IN  [conn |-> [c1 EXCEPT !["os"] = o.conn], out |-> o.out,
                  calls |-> <<"epc", "os">>]

\* _lookup_uprn on the address-index handle: its connection afterwards and
\* the tuple returned or the exception
LookupUprn(c, exists, hasTable, epc, thr, norm_postcode, address_line, fault) ==
    LET cur == PoolExecute("epc", c, exists, QueryAttempt(hasTable, fault, TRUE))
    IN  IF ~cur.out.ok THEN cur
        ELSE [conn |-> cur.conn,
              out |-> SelectBest(EpcQuery(epc, norm_postcode), norm_postcode,
                                 address_line, thr)]

\* _lookup_coordinates on the coordinate handle: its connection afterwards
\* and the row returned or the exception
LookupCoordinates(c, exists, hasTable, os, uprn, pc_for_error, addr_for_error, fault) ==
    LET cur == PoolExecute("os", c, exists,
                           QueryAttempt(hasTable, fault, FitsInt64(uprn)))
    IN  IF ~cur.out.ok THEN cur
        ELSE IF uprn \notin DOMAIN os
        THEN [conn |-> cur.conn,
              out |-> [ok |-> FALSE, error |-> "NoMatchFound",
                       postcode |-> pc_for_error,
                       address |-> addr_for_error]]
        ELSE [conn |-> cur.conn, out |-> [ok |-> TRUE, row |-> os[uprn]]]

\* LookupResult(uprn, matched_address, score, x, y, lat, lon)
LookupResult(sel, row) ==
    [ok |-> TRUE, uprn |-> sel.uprn, matched_address |-> sel.matched_address,
     match_score |-> sel.score, easting |-> row[1], northing |-> row[2],
     latitude |-> row[3], longitude |-> row[4]]

\* find_coordinates from line 50 on, u being what _lookup_uprn gave and co
\* what _lookup_coordinates gave; keys holds the UPRN the coordinate store
\* was queried with
FindJoin(c, u, co) ==
    [conn |-> [c EXCEPT !["epc"] = u.conn, !["os"] = co.conn],
     calls |-> <<"epc", "os">>, keys |-> <<u.out.uprn>>,
     out |-> IF co.out.ok THEN LookupResult(u.out, co.out.row) ELSE co.out]

\* find_coordinates that queries the coordinate store whatever _lookup_uprn
\* gave
FindAfterUprnEager(c, f, sch, os, u, norm_postcode, address_line, faultOs) ==
    IF ~u.out.ok
    THEN [conn |-> [c EXCEPT !["epc"] = u.conn,
                             !["os"] = PoolExecute("os", c["os"], f["os"],
                                           QueryAttempt(sch["os"], faultOs, TRUE)).conn],
          calls |-> <<"epc", "os">>, keys |-> <<>>, out |-> u.out]
    ELSE FindJoin(c, u,
                  LookupCoordinates(c["os"], f["os"], sch["os"], os, u.out.uprn,
                                    norm_postcode, address_line, faultOs))

\* find_coordinates from line 49 on, u being what _lookup_uprn gave
FindAfterUprn(c, f, sch, os, u, norm_postcode, address_line, faultOs) ==
    IF ~u.out.ok
    THEN [conn |-> [c EXCEPT !["epc"] = u.conn], calls |-> <<"epc">>,
          keys |-> <<>>, out |-> u.out]
    ELSE FindJoin(c, u,
                  LookupCoordinates(c["os"], f["os"], sch["os"], os, u.out.uprn,
                                    norm_postcode, address_line, faultOs))

\* find_coordinates that fetches the address-index connection before it
\* looks at the postcode
FindAfterPostcodeLate(c, f, sch, epc, os, thr, pc, address_line, faultEpc, faultOs) ==
    IF ~pc.ok
    THEN [conn |-> [c EXCEPT !["epc"] =
                        PoolGetConnection("epc", c["epc"], f["epc"]).conn],
          calls |-> <<>>, keys |-> <<>>, out |-> pc]
    ELSE FindAfterUprn(c, f, sch, os,
                       LookupUprn(c["epc"], f["epc"], sch["epc"], epc, thr,
                                  pc.value, address_line, faultEpc),
                       pc.value, address_line, faultOs)

\* find_coordinates from line 49 on, pc being the normalised postcode
FindAfterPostcode(c, f, sch, epc, os, thr, pc, address_line, faultEpc, faultOs) ==
    IF ~pc.ok THEN [conn |-> c, calls |-> <<>>, keys |-> <<>>, out |-> pc]
    ELSE FindAfterUprn(c, f, sch, os,
                       LookupUprn(c["epc"], f["epc"], sch["epc"], epc, thr,
                                  pc.value, address_line, faultEpc),
                       pc.value, address_line, faultOs)

\* find_coordinates: the connections afterwards, the LookupResult or the
\* exception, and the handles execute was called on, in order
FindCoordinatesRun(c, f, sch, epc, os, thr, postcode_raw, address_line, faultEpc, faultOs) ==
    FindAfterPostcode(c, f, sch, epc, os, thr, PostcodeNormalise(postcode_raw),
                      address_line, faultEpc, faultOs)

\* str(exc), as the exception it is the text of
ErrorText(out) == <<"error", out>>

\* health_check that leaves the coordinate store unchecked once the address
\* index has failed
HealthCheckRunStopsAtFirst(c, f, sch, faultEpc, faultOs) ==
    LET e == PoolValidateTables("epc", c["epc"], f["epc"],
                                QueryAttempt(TRUE, faultEpc, TRUE), sch["epc"])
        o == PoolValidateTables("os", c["os"], f["os"],
                                QueryAttempt(TRUE, faultOs, TRUE), sch["os"])
    IN  IF ~e.out.ok
        THEN [conn |-> [c EXCEPT !["epc"] = e.conn], calls |-> <<"epc">>,
              out |-> [healthy |-> FALSE, epc_db |-> ErrorText(e.out),
                       os_db |-> <<"ok">>]]
        ELSE [conn |-> [epc |-> e.conn, os |-> o.conn],
              calls |-> <<"epc", "os">>,
              out |-> [healthy |-> o.out.ok, epc_db |-> <<"ok">>,
                       os_db |-> IF o.out.ok THEN <<"ok">> ELSE ErrorText(o.out)]]

\* health_check: both stores are validated, each failure is kept as text
HealthCheckRun(c, f, sch, faultEpc, faultOs) ==
    LET e == PoolValidateTables("epc", c["epc"], f["epc"],
                                QueryAttempt(TRUE, faultEpc, TRUE), sch["epc"])
        o == PoolValidateTables("os", c["os"], f["os"],
                                QueryAttempt(TRUE, faultOs, TRUE), sch["os"])
    IN  [conn |-> [epc |-> e.conn, os |-> o.conn],
         calls |-> <<"epc", "os">>,
         out |-> [healthy |-> e.out.ok /\ o.out.ok,
                  epc_db |-> IF e.out.ok THEN <<"ok">> ELSE ErrorText(e.out),
                  os_db |-> IF o.out.ok THEN <<"ok">> ELSE ErrorText(o.out)]]

\* close that forgets the coordinate handle
EngineCloseEpcOnly(c) == [epc |-> PoolClose(c["epc"]), os |-> c["os"]]

\* close: both handles closed
EngineClose(c) == [epc |-> PoolClose(c["epc"]), os |-> PoolClose(c["os"])]

(***************************************************************************)
(* The engine and its two store handles as a state machine.  The files     *)
(* come and go under the process; a query can fail with a generic          *)
(* operational error (fault) whatever the state of the file.               *)
(***************************************************************************)
PostcodeA == <<"A", "1", " ", "1", "A", "A">>
PostcodeB == <<"B", "1", " ", "1", "A", "A">>

Row(pc, u, a1) ==
    [postcode |-> pc, uprn |-> u, address1 |-> a1, address2 |-> NULL,
     address3 |-> NULL, address |-> NULL]

\* The datasets of the lifecycle specification
FixedEpcTable ==
    << Row(PostcodeA, <<"x">>, <<"a", "b">>),
       Row(PostcodeA, <<"7">>, <<"a", "b">>),
       Row(PostcodeA, <<"8">>, <<"b", "b">>),
       Row(PostcodeB, <<"7">>, <<"b", "b">>) >>
FixedOsTable == (<<"7">> :> <<70, 71, 72, 73>>)

EnginePostcodes ==
    {<<"a", "1", "1", "a", "a">>, <<"b", "1", "1", "a", "a">>, <<"a", "1">>}
EngineAddresses == {<<"a", "b">>, <<"b", "b">>}
EngineThresholds == {DefaultThreshold, One}

NoOp == [op |-> "none"]

Init ==
    /\ engine = "none"
    /\ threshold = DefaultThreshold
    /\ conn = [h \in Handles |-> "unopened"]
    /\ file \in [Handles -> BOOLEAN]
    /\ schema \in [Handles -> BOOLEAN]
    /\ epcTable = FixedEpcTable
    /\ osTable = FixedOsTable
    /\ scope = "none"
    /\ last = NoOp
    /\ PcIdle
    /\ SelIdle
    /\ SimIdle

\* UKGeolocate(epc_db, os_db, match_threshold): __init__
Construct(thr, faultEpc, faultOs) ==
    /\ engine = "none"
    /\ LET r == ValidateDatabases([h \in Handles |-> "unopened"], file, schema,
                                  faultEpc, faultOs)
       IN  /\ conn' = r.conn
           /\ engine' = IF r.out.ok THEN "ready" ELSE "failed"
           /\ last' = [op |-> "construct", faults |-> <<faultEpc, faultOs>>,
                       before |-> conn, calls |-> r.calls, out |-> r.out]
    /\ threshold' = thr
    /\ UNCHANGED <<file, dataVars, scope, pcVars, selVars, simVars>>

\* find_coordinates(postcode_raw, address_line)
FindCoordinates(postcode_raw, address_line, faultEpc, faultOs) ==
    /\ engine = "ready"
    /\ LET r == FindCoordinatesRun(conn, file, schema, epcTable, osTable,
                                   threshold, postcode_raw, address_line,
                                   faultEpc, faultOs)
       IN  /\ conn' = r.conn
           /\ last' = [op |-> "find_coordinates", postcode_raw |-> postcode_raw,
                       address_line |-> address_line,
                       faults |-> <<faultEpc, faultOs>>, before |-> conn,
                       calls |-> r.calls, keys |-> r.keys, out |-> r.out]
    /\ UNCHANGED <<engine, threshold, file, dataVars, scope, pcVars, selVars, simVars>>

\* health_check()
HealthCheck(faultEpc, faultOs) ==
    /\ engine = "ready"
    /\ LET r == HealthCheckRun(conn, file, schema, faultEpc, faultOs)
       IN  /\ conn' = r.conn
           /\ last' = [op |-> "health_check", faults |-> <<faultEpc, faultOs>>,
                       before |-> conn, calls |-> r.calls, out |-> r.out]
    /\ UNCHANGED <<engine, threshold, file, dataVars, scope, pcVars, selVars, simVars>>

\* close()
Close ==
    /\ engine = "ready"
    /\ conn' = EngineClose(conn)
    /\ last' = [op |-> "close", before |-> conn, calls |-> <<>>, out |-> Ok]
    /\ UNCHANGED <<engine, threshold, file, dataVars, scope, pcVars, selVars, simVars>>

\* __enter__: the with block begins
Enter ==
    /\ engine = "ready"
    /\ scope = "none"
    /\ scope' = "with"
    /\ last' = [op |-> "enter", before |-> conn, calls |-> <<>>, out |-> Ok]
    /\ UNCHANGED <<engine, threshold, conn, file, dataVars, pcVars, selVars, simVars>>

\* __exit__(*exc): the with block is left, its body having raised or not
Exit(raised) ==
    /\ scope = "with"
    /\ scope' = "none"
    /\ conn' = EngineClose(conn)
    /\ last' = [op |-> "exit", raised |-> raised, before |-> conn,
                calls |-> <<>>, out |-> Ok]
    /\ UNCHANGED <<engine, threshold, file, dataVars, pcVars, selVars, simVars>>

\* _DatabasePool.execute on one handle
Execute(h, attempt) ==
    /\ engine = "ready"
    /\ LET r == PoolExecute(h, conn[h], file[h], attempt)
       IN  /\ conn' = [conn EXCEPT ![h] = r.conn]
           /\ last' = [op |-> "execute", h |-> h, attempt |-> attempt,
                       before |-> conn, calls |-> <<h>>, out |-> r.out]
    /\ UNCHANGED <<engine, threshold, file, dataVars, scope, pcVars, selVars, simVars>>

\* _DatabasePool.validate_tables on one handle
ValidateTables(h, fault) ==
    /\ engine = "ready"
    /\ LET r == PoolValidateTables(h, conn[h], file[h],
                                   QueryAttempt(TRUE, fault, TRUE), schema[h])
       IN  /\ conn' = [conn EXCEPT ![h] = r.conn]
           /\ last' = [op |-> "validate_tables", h |-> h, fault |-> fault,
                       before |-> conn, calls |-> <<h>>, out |-> r.out]
    /\ UNCHANGED <<engine, threshold, file, dataVars, scope, pcVars, selVars, simVars>>

\* _DatabasePool.close on one handle
CloseHandle(h) ==
    /\ engine = "ready"
    /\ conn' = [conn EXCEPT ![h] = PoolClose(conn[h])]
    /\ last' = [op |-> "pool_close", h |-> h, before |-> conn, calls |-> <<>>,
                out |-> Ok]
    /\ UNCHANGED <<engine, threshold, file, dataVars, scope, pcVars, selVars, simVars>>

\* The file of a dataset is deleted, or put back, under the process
FileChange(h) ==
    /\ file' = [file EXCEPT ![h] = ~file[h]]
    /\ last' = [op |-> "env"]
    /\ UNCHANGED <<engine, threshold, conn, dataVars, scope, pcVars, selVars, simVars>>

\* The file of a dataset is replaced, while the handle holds no connection to
\* it, by one with or without the expected table
DatasetReplace(h) ==
    /\ conn[h] # "open"
    /\ schema' = [schema EXCEPT ![h] = ~schema[h]]
    /\ last' = [op |-> "env"]
    /\ UNCHANGED <<engine, threshold, conn, file, epcTable, osTable, scope,
                   pcVars, selVars, simVars>>


Next ==
    \/ \E thr \in EngineThresholds, fe \in BOOLEAN, fo \in BOOLEAN :
           Construct(thr, fe, fo)
    \/ \E p \in EnginePostcodes, a \in EngineAddresses,
          fe \in BOOLEAN, fo \in BOOLEAN : FindCoordinates(p, a, fe, fo)
    \/ \E fe \in BOOLEAN, fo \in BOOLEAN : HealthCheck(fe, fo)
    \/ Close
    \/ Enter
    \/ \E raised \in BOOLEAN : Exit(raised)
    \/ \E h \in Handles, attempt \in Attempts : Execute(h, attempt)
    \/ \E h \in Handles, fault \in BOOLEAN : ValidateTables(h, fault)
    \/ \E h \in Handles : CloseHandle(h)
    \/ \E h \in Handles : FileChange(h)
    \/ \E h \in Handles : DatasetReplace(h)

Spec == Init /\ [][Next]_vars

(***************************************************************************)
(* The engine on every small pair of datasets: Init is the state after a   *)
(* successful construction (both files present and valid, both handles     *)
(* open); lookups and close() follow.                                      *)
(***************************************************************************)
\* 2^63, the least UPRN text whose integer is no SQLite INTEGER
UprnBeyondInt64 == Int64MinMagnitude

LookupUprnTexts ==
    {<<"7">>, <<"8">>, <<"x">>, <<"0">>, <<"-", "7">>, UprnBeyondInt64}
LookupRowUniverse ==
    {Row(PostcodeA, u, <<"a", "b">>) : u \in LookupUprnTexts}
        \cup {Row(PostcodeA, <<"7">>, <<"a">>),
              Row(PostcodeA, <<>>, <<"a", "b">>),
              Row(PostcodeB, <<"7">>, <<"a", "b">>)}
\* A coordinate table with a record for every integer the UPRN texts give
FullOsTable ==
    (<<"7">> :> <<70, 71, 72, 73>>) @@ (<<"8">> :> <<80, 81, 82, 83>>)
        @@ (<<"0">> :> <<0, 1, 2, 3>>) @@ (<<"-", "7">> :> <<10, 11, 12, 13>>)
LookupOsTables == {FixedOsTable, FullOsTable}
LookupPostcodes == {<<"a", "1", "1", "a", "a">>, <<"a", "1">>}
LookupAddresses == {<<"a", "b">>}

InitLookup ==
    /\ engine = "ready"
    /\ threshold \in EngineThresholds
    /\ conn = [h \in Handles |-> "open"]
    /\ file = [h \in Handles |-> TRUE]
    /\ schema = [h \in Handles |-> TRUE]
    /\ epcTable \in UNION {[1..k -> LookupRowUniverse] : k \in 0..MaxEpcRows}
    /\ osTable \in LookupOsTables
    /\ scope = "none"
    /\ last = NoOp
    /\ PcIdle
    /\ SelIdle
    /\ SimIdle

NextLookup ==
    \/ \E p \in LookupPostcodes, a \in LookupAddresses,
          fe \in BOOLEAN, fo \in BOOLEAN : FindCoordinates(p, a, fe, fo)
    \/ Close

SpecLookup == InitLookup /\ [][NextLookup]_vars

\* The variables of the engine, at rest
EngIdle ==
    /\ engine = "none"
    /\ threshold = DefaultThreshold
    /\ conn = [h \in Handles |-> "unopened"]
    /\ file = [h \in Handles |-> TRUE]
    /\ schema = [h \in Handles |-> TRUE]
    /\ epcTable = <<>>
    /\ osTable = <<>>
    /\ scope = "none"
    /\ last = NoOp


(***************************************************************************)
(* The postcode normaliser as a pure function: Init draws the argument,    *)
(* the actions apply normalise once and then to its own result.            *)
(***************************************************************************)
PcAlphabet == {"a", "A", "1", " ", "\t"}
PcInputs == StringsUpTo(PcAlphabet, MaxPcLen)

InitPostcode ==
    /\ pcRaw \in PcInputs
    /\ pcOut = Pending
    /\ pcOut2 = Pending
    /\ SelIdle
    /\ SimIdle
    /\ EngIdle

NormaliseOnce ==
    /\ pcOut = Pending
    /\ pcOut' = PostcodeNormalise(pcRaw)
    /\ UNCHANGED <<pcRaw, pcOut2, selVars, simVars, engVars>>

NormaliseAgain ==
    /\ pcOut.ok
    /\ pcOut2 = Pending
    /\ pcOut2' = PostcodeNormalise(pcOut.value)
    /\ UNCHANGED <<pcRaw, pcOut, selVars, simVars, engVars>>

NextPostcode == NormaliseOnce \/ NormaliseAgain

SpecPostcode == InitPostcode /\ [][NextPostcode]_vars

(***************************************************************************)
(* Candidate selection as a pure function: Init draws the rows of the      *)
(* cursor, the query and the threshold; the action runs the scan.          *)
(***************************************************************************)
\* The postcode the rows were fetched for
SelPostcode == <<"A", "1", " ", "1", "A", "A">>

UprnTexts == {<<"7">>, <<"8">>, <<"x">>}
AddressTexts == {<<"a", "b">>, <<"a">>, <<"b", "a">>, <<>>}
QueryTexts == {<<"a", "B">>, <<"a">>, <<",">>}
Thresholds == {Zero, <<9, 20>>, <<2, 3>>, One}

\* The tuples a cursor row unpacks to: uprn, address1..3, address
SelRowUniverse ==
    {[uprn |-> u, address1 |-> a, address2 |-> NULL, address3 |-> NULL,
      address |-> NULL] : u \in UprnTexts, a \in AddressTexts}
        \cup {[uprn |-> <<"7">>, address1 |-> <<>>, address2 |-> <<"a", "b">>,
               address3 |-> <<"a">>, address |-> NULL],
              [uprn |-> <<"8">>, address1 |-> <<"a">>, address2 |-> NULL,
               address3 |-> NULL, address |-> <<"b", "a">>]}

InitSelect ==
    /\ selRows \in UNION {[1..k -> SelRowUniverse] : k \in 0..MaxRows}
    /\ selQuery \in QueryTexts
    /\ selThreshold \in Thresholds
    /\ selOut = Pending
    /\ PcIdle
    /\ SimIdle
    /\ EngIdle

RunSelect ==
    /\ selOut = Pending
    /\ selOut' = SelectBest(selRows, SelPostcode, selQuery, selThreshold)
    /\ UNCHANGED <<selRows, selQuery, selThreshold, pcVars, simVars, engVars>>

NextSelect == RunSelect

SpecSelect == InitSelect /\ [][NextSelect]_vars

(***************************************************************************)
(* address.similarity as a pure function: Init draws the two strings, the  *)
(* action scores them.                                                     *)
(***************************************************************************)
SimAlphabet == {"a", "A", "b", ",", " "}
SimCandidates == StringsUpTo(SimAlphabet, MaxSimLen)
SimQueries == StringsUpTo(SimAlphabet, MaxSimLen - 1)

InitSimilarity ==
    /\ simCandidate \in SimCandidates
    /\ simQuery \in SimQueries
    /\ simOut = Pending
    /\ PcIdle
    /\ SelIdle
    /\ EngIdle

RunSimilarity ==
    /\ simOut = Pending
    /\ simOut' = [ok |-> TRUE, value |-> Similarity(simCandidate, simQuery)]
    /\ UNCHANGED <<simCandidate, simQuery, pcVars, selVars, engVars>>

NextSimilarity == RunSimilarity

SpecSimilarity == InitSimilarity /\ [][NextSimilarity]_vars

(***************************************************************************)
(* Properties of candidate selection (SpecSelect)                          *)
(***************************************************************************)
SelNormQuery == AddrNormalise(selQuery)
SelScore(i) == RowScore(selRows[i], SelNormQuery)
SelParses(i) == ParseInt(selRows[i].uprn).ok
\* The rows that can be selected: the UPRN parses, the score meets the threshold
SelEligible ==
    {i \in 1..Len(selRows) : SelParses(i) /\ FracGE(SelScore(i), selThreshold)}
\* What _lookup_uprn returns when row i is the selected one
SelTuple(i) ==
    [ok |-> TRUE, uprn |-> ParseInt(selRows[i].uprn).value,
     matched_address |-> MatchedAddress(selRows[i]), score |-> SelScore(i)]
SelNoMatch ==
    [ok |-> FALSE, error |-> "NoMatchFound",
     postcode |-> SelPostcode, address |-> selQuery]

\* C1: the scan never raises on a row whose UPRN does not parse and never
\* returns such a row: the outcome is a best-scoring row among the rows
\* whose UPRN parses and whose score meets the threshold, and NoMatchFound
\* when there is no such row.
C1_BadUprnRowSkipped ==
    selOut # Pending =>
        IF SelEligible = {} THEN selOut = SelNoMatch
        ELSE \E i \in SelEligible :
                 /\ selOut = SelTuple(i)
                 /\ \A j \in SelEligible : FracGE(SelScore(i), SelScore(j))

\* C1 witness: a row whose UPRN does not parse scores strictly higher than
\* every other row and meets the threshold, and a row is returned.
C1_Witness ==
    /\ selOut # Pending /\ selOut.ok
    /\ \E i \in 1..Len(selRows) :
           /\ ~SelParses(i)
           /\ FracGE(SelScore(i), selThreshold)
           /\ \A j \in 1..Len(selRows) :
                  j # i => FracGT(SelScore(i), SelScore(j))

\* The first row in scan order that attains the maximum score of the
\* eligible rows
SelFirstBest ==
    CHOOSE i \in SelEligible :
        /\ \A j \in SelEligible : FracGE(SelScore(i), SelScore(j))
        /\ \A j \in SelEligible :
               (\A k \in SelEligible : FracGE(SelScore(j), SelScore(k))) => i <= j

RECURSIVE ScanAllRows(_, _)
\* The scan with no early exit: every row is visited, a later eligible row
\* replaces the best so far only with a strictly higher score
ScanAllRows(i, best) ==
    IF i > Len(selRows) THEN best
    ELSE IF i \in SelEligible /\ (best = 0 \/ FracGT(SelScore(i), SelScore(best)))
         THEN ScanAllRows(i + 1, i)
         ELSE ScanAllRows(i + 1, best)

\* C2: the row selected is the first row in scan order, among the rows with
\* a parseable UPRN and a score >= threshold, that attains the maximum score
\* of those rows; and it is the row a scan of all rows (no stop at the first
\* accepted score of 1.0) selects.
C2_FirstBestSelected ==
    selOut # Pending =>
        IF SelEligible = {} THEN selOut = SelNoMatch
        ELSE /\ selOut = SelTuple(SelFirstBest)
             /\ selOut = SelTuple(ScanAllRows(1, 0))

\* C2 witness: two eligible rows with different UPRNs tie on a score of 1.0,
\* the scan stopped at the first and rows follow it.
C2_Witness ==
    /\ selOut # Pending /\ selOut.ok
    /\ \E i \in SelEligible, j \in SelEligible :
           /\ i < j
           /\ SelScore(i) = One /\ SelScore(j) = One
           /\ SelTuple(i) # SelTuple(j)
           /\ selOut = SelTuple(i)

(***************************************************************************)
(* Properties of the postcode normaliser (SpecPostcode)                    *)
(***************************************************************************)
\* C5: normalise is idempotent on every string validate accepts:
\* normalise(normalise(x)) succeeds and equals normalise(x).
C5_NormaliseIdempotent ==
    (pcOut.ok /\ pcOut2 # Pending) => pcOut2 = pcOut

RECURSIVE RemoveWhitespace(_)
RemoveWhitespace(s) ==
    IF s = <<>> THEN <<>>
    ELSE IF Head(s) \in Whitespace THEN RemoveWhitespace(Tail(s))
    ELSE <<Head(s)>> \o RemoveWhitespace(Tail(s))

\* The canonical form: upper case, no whitespace but one space three
\* characters from the end
IsCanonicalPostcode(s) ==
    /\ Len(s) >= 4
    /\ s = Upper(s)
    /\ \A i \in 1..Len(s) :
           IF i = Len(s) - 3 THEN s[i] = " " ELSE s[i] \notin Whitespace

\* C6: for every accepted string normalise returns the canonical form, the
\* same for all inputs that differ only in letter case or in whitespace: the
\* letters and digits of the input in upper case, with one space three
\* characters from the end.
C6_NormaliseCanonical ==
    pcOut.ok =>
        /\ IsCanonicalPostcode(pcOut.value)
        /\ RemoveWhitespace(pcOut.value) = Upper(RemoveWhitespace(pcRaw))


(***************************************************************************)
(* Claims on find_coordinates and on the lifecycle of the store handles.   *)
(* last.before is the connection state the last operation started from;   *)
(* the files are as the operation found them, no step of the environment   *)
(* having come in between.                                                 *)
(***************************************************************************)
IsCall == last.op \notin {"none", "env"}
IsFind == last.op = "find_coordinates"
Called(h) == \E i \in 1..Len(last.calls) : last.calls[i] = h
StoresAvailable ==
    /\ \A h \in Handles : file[h] /\ schema[h]
    /\ last.faults = <<FALSE, FALSE>>

FindPostcode == PostcodeNormalise(last.postcode_raw).value
FindRows == EpcQuery(epcTable, FindPostcode)
FindQuery == AddrNormalise(last.address_line)
FindEligible ==
    {i \in 1..Len(FindRows) :
        /\ ParseInt(FindRows[i].uprn).ok
        /\ FracGE(RowScore(FindRows[i], FindQuery), threshold)}
\* The first of the eligible rows that no eligible row outscores
FindSelected ==
    CHOOSE i \in FindEligible :
        \A j \in FindEligible :
            /\ FracGE(RowScore(FindRows[i], FindQuery),
                      RowScore(FindRows[j], FindQuery))
            /\ (RowScore(FindRows[j], FindQuery)
                    = RowScore(FindRows[i], FindQuery) => i <= j)
FindUprn == ParseInt(FindRows[FindSelected].uprn).value
FindNoMatch ==
    [ok |-> FALSE, error |-> "NoMatchFound", postcode |-> FindPostcode,
     address |-> last.address_line]
FindResult ==
    [ok |-> TRUE, uprn |-> FindUprn,
     matched_address |-> MatchedAddress(FindRows[FindSelected]),
     match_score |-> RowScore(FindRows[FindSelected], FindQuery),
     easting |-> osTable[FindUprn][1], northing |-> osTable[FindUprn][2],
     latitude |-> osTable[FindUprn][3], longitude |-> osTable[FindUprn][4]]

\* C3: for a valid postcode and both stores available, find_coordinates
\* fails with NoMatchFound(postcode, address) exactly when no eligible row
\* meets the threshold or the selected UPRN has no coordinate record, and
\* in every other case returns the LookupResult of the selected row; no
\* lower-scoring row is tried when the selected UPRN has no coordinates.
C3_NoMatchOrResult ==
    (IsFind /\ PostcodeValidate(last.postcode_raw) /\ StoresAvailable) =>
        IF FindEligible = {} THEN last.out = FindNoMatch
        ELSE IF FindUprn \notin DOMAIN osTable THEN last.out = FindNoMatch
        ELSE last.out = FindResult

\* C4: a postcode that fails the grammar makes find_coordinates fail with
\* PostcodeInvalid carrying the raw input, before any dataset access: no
\* store is queried and the connection of both handles is as it was.
C4_InvalidPostcodeNoAccess ==
    (IsFind /\ ~PostcodeValidate(last.postcode_raw)) =>
        /\ last.out = [ok |-> FALSE, error |-> "PostcodeInvalid",
                       postcode |-> last.postcode_raw]
        /\ last.calls = <<>>
        /\ conn = last.before

C4_Witness ==
    /\ IsFind
    /\ ~PostcodeValidate(last.postcode_raw)
    /\ last.before["epc"] = "closed"
    /\ last.before["os"] = "open"
    /\ ~file["os"]

\* C7: a query that fails with a generic operational error on a handle with
\* an open connection: if the file is missing the handle drops the
\* connection and the call fails with DatabaseNotFound(path, name); if the
\* file exists the original error is raised and the connection stays open.
C7_StaleOrGenuineFault ==
    (/\ last.op = "execute"
     /\ last.attempt = "OperationalError"
     /\ last.before[last.h] = "open") =>
        IF ~file[last.h]
        THEN /\ conn[last.h] # "open"
             /\ last.out = [ok |-> FALSE, error |-> "DatabaseNotFound",
                            path |-> last.h, db_name |-> DbName(last.h)]
        ELSE /\ conn[last.h] = "open"
             /\ last.out = [ok |-> FALSE, error |-> "OperationalError",
                            path |-> last.h]

C7_Witness ==
    /\ last.op = "execute"
    /\ last.attempt = "OperationalError"
    /\ last.before[last.h] = "open"
    /\ ~file[last.h]
    /\ last.out.error = "DatabaseNotFound"
    /\ conn[last.h] = "stale"

\* C8: a handle without a connection opens lazily on its next execute: with
\* the file missing the call fails with DatabaseNotFound and the handle
\* stays without a connection, with the file present a connection is opened
\* and the query runs; so find_coordinates with both files back gives what
\* it gives on open handles, whatever the handles went through before.
C8_LazyOpen ==
    /\ (last.op = "execute" /\ last.before[last.h] # "open") =>
           IF ~file[last.h]
           THEN /\ last.out.error = "DatabaseNotFound"
                /\ conn[last.h] = last.before[last.h]
           ELSE /\ conn[last.h] = "open"
                /\ last.out = IF last.attempt = "ok" THEN Ok
                              ELSE SqliteError(last.attempt, last.h)
    /\ (IsFind /\ PostcodeValidate(last.postcode_raw) /\ StoresAvailable) =>
           /\ last.out = FindCoordinatesRun([h \in Handles |-> "open"], file,
                                            schema, epcTable, osTable, threshold,
                                            last.postcode_raw, last.address_line,
                                            FALSE, FALSE).out
           /\ \A h \in Handles : Called(h) => conn[h] = "open"
           /\ (/\ last.postcode_raw = <<"a", "1", "1", "a", "a">>
               /\ last.address_line = <<"a", "b">>) => last.out.ok

C8_Witness ==
    /\ IsFind
    /\ last.before["epc"] = "stale"
    /\ last.before["os"] = "stale"
    /\ last.out.ok
    /\ conn = [h \in Handles |-> "open"]

\* C9 as stated: no operation started on a closed handle leaves it with an
\* open connection.
C9_ClosedIsTerminal ==
    IsCall =>
        \A h \in Handles : last.before[h] = "closed" => conn[h] # "open"

\* C9: a closed handle holds no connection until the next operation that
\* queries it while its file exists, and that operation reopens it; an
\* operation that does not query the handle, or queries it while the file is
\* missing, leaves it closed.
C9_ClosedUntilNextQuery ==
    IsCall =>
        \A h \in Handles :
            last.before[h] = "closed" =>
                conn[h] = IF Called(h) /\ file[h] THEN "open" ELSE "closed"

C9_Witness ==
    /\ IsFind
    /\ last.before = [h \in Handles |-> "closed"]
    /\ conn = [h \in Handles |-> "open"]

\* C10: close() of the engine leaves both handles without a connection from
\* any state and raises nothing, a close() that finds no connection changes
\* nothing, and so does leaving the with block, the body having raised or
\* not.
C10_CloseReleasesBoth ==
    last.op \in {"close", "exit"} =>
        /\ last.out = Ok
        /\ \A h \in Handles : conn[h] # "open"
        /\ (\A h \in Handles : last.before[h] # "open") => conn = last.before

C10_Witness ==
    /\ last.op = "exit"
    /\ last.raised
    /\ last.before = [h \in Handles |-> "open"]
    /\ conn = [h \in Handles |-> "closed"]

(***************************************************************************)
(* Claims on construction and on health_check.                             *)
(***************************************************************************)
IsConstruct == last.op = "construct"
NotFoundOf(h) ==
    [ok |-> FALSE, error |-> "DatabaseNotFound", path |-> h,
     db_name |-> IF h = "epc" THEN "EPC" ELSE "OS Open UPRN"]
InvalidOf(h) ==
    [ok |-> FALSE, error |-> "DatabaseInvalid", path |-> h,
     detail |-> IF h = "epc" THEN "epc_addresses" ELSE "uprns"]

\* C11: construction validates both datasets at once, the address index
\* first: it succeeds only if both files exist and hold their tables, and
\* the engine is usable only then; a missing address-index file is reported
\* as DatabaseNotFound naming "EPC" whatever the coordinate dataset is like;
\* with no storage fault the outcome is DatabaseNotFound or DatabaseInvalid
\* of the first dataset, in that order, that is missing or lacks its table.
C11_ConstructValidatesBoth ==
    IsConstruct =>
        /\ last.out.ok => \A h \in Handles : file[h] /\ schema[h]
        /\ (engine = "ready") = last.out.ok
        /\ ~file["epc"] => last.out = NotFoundOf("epc")
        /\ last.faults = <<FALSE, FALSE>> =>
               last.out = IF ~file["epc"] THEN NotFoundOf("epc")
                          ELSE IF ~schema["epc"] THEN InvalidOf("epc")
                          ELSE IF ~file["os"] THEN NotFoundOf("os")
                          ELSE IF ~schema["os"] THEN InvalidOf("os")
                          ELSE Ok

C11_Witness ==
    /\ IsConstruct
    /\ ~file["epc"]
    /\ ~file["os"]
    /\ last.out.error = "DatabaseNotFound"
    /\ last.out.db_name = "EPC"
    /\ engine = "failed"

IsHealthCheck == last.op = "health_check"
HealthFault(h) == IF h = "epc" THEN last.faults[1] ELSE last.faults[2]
\* What validating the store of handle h alone comes to, from the state the
\* call found the handle and its file in
HealthFailure(h) ==
    IF last.before[h] # "open" /\ ~file[h] THEN NotFoundOf(h)
    ELSE IF HealthFault(h)
         THEN IF ~file[h] THEN NotFoundOf(h)
              ELSE [ok |-> FALSE, error |-> "OperationalError", path |-> h]
    ELSE IF ~schema[h] THEN InvalidOf(h)
    ELSE Ok
HealthField(h) ==
    IF HealthFailure(h).ok THEN <<"ok">> ELSE <<"error", HealthFailure(h)>>

\* C12: health_check raises nothing in any state of the handles and files:
\* it returns a status whose field for each store is "ok" or the text of
\* that store's own failure, the coordinate store being checked whatever
\* the address-index check gave, and healthy is true exactly when both
\* fields are "ok".
C12_HealthCheckReports ==
    IsHealthCheck =>
        /\ DOMAIN last.out = {"healthy", "epc_db", "os_db"}
        /\ last.out.epc_db = HealthField("epc")
        /\ last.out.os_db = HealthField("os")
        /\ last.out.healthy =
               (last.out.epc_db = <<"ok">> /\ last.out.os_db = <<"ok">>)
        /\ last.calls = <<"epc", "os">>

C12_Witness ==
    /\ IsHealthCheck
    /\ ~last.out.healthy
    /\ last.before = [h \in Handles |-> "closed"]
    /\ ~file["epc"]
    /\ last.out.epc_db = <<"error", NotFoundOf("epc")>>
    /\ file["os"] /\ ~schema["os"]
    /\ last.out.os_db = <<"error", InvalidOf("os")>>

(***************************************************************************)
(* Claims on the result of find_coordinates over all small datasets.       *)
(***************************************************************************)
\* The rows of the address index in another storage order
Reordered(p) == [i \in 1..Len(epcTable) |-> epcTable[p[i]]]
FindOn(c, epc) ==
    FindCoordinatesRun(c, file, schema, epc, osTable, threshold,
                       last.postcode_raw, last.address_line,
                       last.faults[1], last.faults[2]).out

\* C13: find_coordinates is deterministic: the same postcode, address and
\* threshold on the same dataset contents give the same LookupResult or the
\* same error, whatever the connection state of the handles and whatever
\* the order in which the address index returns the rows, ties on the best
\* score included.
C13_Deterministic ==
    IsFind =>
        \A c \in [Handles -> {"open", "closed"}] :
            \A p \in Permutations(1..Len(epcTable)) :
                FindOn(c, Reordered(p)) = last.out

\* C15: the uprn of every LookupResult is a positive integer: a row whose
\* UPRN text parses to zero or to a negative integer is never selected.
C15_UprnPositive ==
    (IsFind /\ last.out.ok) =>
        /\ ~IntNegative(last.out.uprn)
        /\ last.out.uprn # <<"0">>

(***************************************************************************)
(* Claims on the matched address and on the score of a row (SpecSelect).   *)
(***************************************************************************)
IsText(x) == x # NULL /\ x # <<>>
\* The full address if there is one, else the first of address1..3 there is
PreferredAddress(row) ==
    IF IsText(row.address) THEN row.address
    ELSE IF IsText(row.address1) THEN row.address1
    ELSE IF IsText(row.address2) THEN row.address2
    ELSE IF IsText(row.address3) THEN row.address3
    ELSE <<>>

\* C14: the matched_address returned is the full-address column of the
\* selected row when that is non-empty, else the first non-empty column
\* among address1, address2, address3, and the empty string only when all
\* the address columns of the row are empty.
C14_MatchedAddressPreferred ==
    (selOut # Pending /\ selOut.ok) =>
        selOut.matched_address = PreferredAddress(selRows[SelFirstBest])

AvailableColumns(row) ==
    {x \in {row.address1, row.address2, row.address3, row.address} : IsText(x)}
\* The highest similarity of the query with a column the row has; no score
\* (0.0) when it has none
AvailableScore(row) ==
    IF AvailableColumns(row) = {} THEN Zero
    ELSE MaxFrac({Similarity(x, SelNormQuery) : x \in AvailableColumns(row)})

\* C18: the score of a row is the maximum of the similarity of the query
\* with each address column the row has (non-NULL, non-empty); a NULL or
\* empty column contributes no score, whatever the query, a query whose
\* normalised form is empty included.
C18_ScoreFromAvailableColumns ==
    selOut # Pending =>
        /\ \A i \in 1..Len(selRows) : SelScore(i) = AvailableScore(selRows[i])
        /\ selOut.ok => selOut.score = AvailableScore(selRows[SelFirstBest])

(***************************************************************************)
(* Properties of address.similarity (SpecSimilarity)                       *)
(***************************************************************************)
InsertAt(s, i, c) == SubSeq(s, 1, i) \o <<c>> \o SubSeq(s, i + 1, Len(s))
\* The candidate with its case changed, its commas removed, a comma put in
\* anywhere, or whitespace put in at an end or next to whitespace
SimVariants(s) ==
    {Upper(s), RemoveChar(s, ","), <<" ">> \o s, s \o <<" ">>}
        \cup {InsertAt(s, i, ",") : i \in 0..Len(s)}
        \cup {InsertAt(s, i, " ") : i \in {j \in 1..Len(s) : s[j] = " "}}

\* C16: similarity(c, q) depends only on the normalised forms of c and q
\* (a change of case, commas or extra whitespace put in or taken out do not
\* change it), lies in [0.0, 1.0], and is 1.0 exactly when normalise(c) ==
\* normalise(q); similarity(x, x) == 1.0 for every non-empty x.
C16_SimilarityOnNormalForms ==
    simOut # Pending =>
        /\ FracGE(simOut.value, Zero) /\ FracGE(One, simOut.value)
        /\ (simOut.value = One) =
               (AddrNormalise(simCandidate) = AddrNormalise(simQuery))
        /\ \A c \in SimVariants(simCandidate) :
               Similarity(c, simQuery) = simOut.value
        /\ \A q \in SimVariants(simQuery) :
               Similarity(simCandidate, q) = simOut.value
        /\ simCandidate = simQuery => simOut.value = One

C16_Witness ==
    /\ simOut # Pending
    /\ simOut.value = One
    /\ Upper(simCandidate) # Upper(simQuery)
    /\ simQuery # <<>>
    /\ \E i \in 1..Len(simCandidate) : simCandidate[i] = "a"

(***************************************************************************)
(* Claim on the order of the queries of find_coordinates.                  *)
(***************************************************************************)
\* Whether the query on the address index returns its rows: a connection is
\* there or can be opened, the table exists and the store does not fail
EpcQueryRuns ==
    /\ last.before["epc"] = "open" \/ file["epc"]
    /\ schema["epc"]
    /\ ~last.faults[1]

\* C17: find_coordinates queries the address index at most once and then
\* the coordinate store at most once; the coordinate store is queried only
\* after a row has been selected and with the parsed UPRN of that row as
\* the key; when the address-index step ends in NoMatchFound or an error
\* the coordinate store is not queried.
C17_QueryOrder ==
    IsFind =>
        /\ last.calls =
               IF ~PostcodeValidate(last.postcode_raw) THEN <<>>
               ELSE IF EpcQueryRuns /\ FindEligible # {} THEN <<"epc", "os">>
               ELSE <<"epc">>
        /\ last.keys = IF last.calls = <<"epc", "os">> THEN <<FindUprn>>
                       ELSE <<>>
        /\ last.calls # <<"epc", "os">> =>
               /\ ~last.out.ok
               /\ conn["os"] = last.before["os"]

C17_Witness ==
    /\ IsFind
    /\ last.calls = <<"epc">>
    /\ last.out.error = "NoMatchFound"
    /\ last.before["os"] = "closed"
    /\ file["os"]
    /\ conn["os"] = "closed"

(***************************************************************************)
(* Claim on the handles of an engine whose construction failed.            *)
(***************************************************************************)
\* C19: when construction fails, no handle it created is left with an open
\* connection: the address-index connection opened by the validation is
\* released by the time the error of the coordinate dataset reaches the
\* caller.
C19_FailedConstructionReleases ==
    (IsConstruct /\ ~last.out.ok) =>
        \A h \in Handles : conn[h] # "open"

====
